---- MODULE Spec2Model ----
(* Model of rsbkb's hex / unhex / urlenc applets (src/src/hexapp.rs and        *)
(* src/src/urlapp.rs).  Bytes are integers 0..255, buffers are sequences of    *)
(* bytes.  Each applet run is: parse_args, then process; the two unhex         *)
(* decoders are modelled statement by statement.                               *)
EXTENDS Integers, Sequences, FiniteSets, TLC

VARIABLES applet, args, input, piped, orig, pc, hexonly, strict, table,
          val, stack, decoded, win, last, res, npairs, nstripped, result

vars == <<applet, args, input, piped, orig, pc, hexonly, strict, table,
          val, stack, decoded, win, last, res, npairs, nstripped, result>>

-----------------------------------------------------------------------------
(* Bounds and input alphabets                                                  *)

MaxLen == 4
MaxRaw == 2
MaxUrlLen == 2

\* '\n', ' ', '4', 'F', 'x'; lowercase digits reach unhex from the encoder
TextBytes == {10, 32, 52, 70, 120}
\* raw bytes given to the hex encoder
RawBytes == {0, 10, 171, 255}
\* ' ', '!', ',', 'a', 0xe9
UrlBytes == {32, 33, 44, 97, 233}
\* characters that may appear in --exclude-chars / --custom
ExcludeChars == {32, 33, 97}
CustomChars == {33, 97}

SeqsUpTo(S, n) == UNION {[1..k -> S] : k \in 0..n}

Min(S) == CHOOSE x \in S : \A y \in S : x <= y
Max(S) == CHOOSE x \in S : \A y \in S : x >= y

-----------------------------------------------------------------------------
(* Library functions used by the applets                                       *)

\* variant: is_ascii_alphanumeric used where is_ascii_hexdigit is meant
IsAsciiHexdigit_Alnum(c) == (c \in 48..57) \/ (c \in 65..90) \/ (c \in 97..122)

\* u8 as char .is_ascii_hexdigit()
IsAsciiHexdigit(c) == (c \in 48..57) \/ (c \in 65..70) \/ (c \in 97..102)

\* hex crate: val(c, idx); -1 stands for Err(InvalidHexCharacter)
HexVal(c) ==
    IF c \in 65..70 THEN c - 65 + 10
    ELSE IF c \in 97..102 THEN c - 97 + 10
    ELSE IF c \in 48..57 THEN c - 48
    ELSE -1

Res(k, b, i) == [kind |-> k, bytes |-> b, index |-> i]
NoResult == Res("None", <<>>, 0)
Ok(b) == Res("Ok", b, 0)

\* variant: the characters are validated before the length is looked at
HexDecode_CharsFirst(data) ==
    LET bad == {i \in 1..Len(data) : HexVal(data[i]) < 0}
    IN IF bad # {} THEN Res("InvalidHexCharacter", <<>>, Min(bad) - 1)
       ELSE IF Len(data) % 2 # 0 THEN Res("OddLength", <<>>, 0)
       ELSE Ok([k \in 1..(Len(data) \div 2) |->
                  (HexVal(data[2*k - 1]) * 16 + HexVal(data[2*k])) % 256])

\* hex::decode: odd length is checked first, then pairs left to right, the
\* first invalid character (0-based index) aborts the whole decode
HexDecode(data) ==
    IF Len(data) % 2 # 0 THEN Res("OddLength", <<>>, 0)
    ELSE LET bad == {i \in 1..Len(data) : HexVal(data[i]) < 0}
         IN IF bad # {} THEN Res("InvalidHexCharacter", <<>>, Min(bad) - 1)
            ELSE Ok([k \in 1..(Len(data) \div 2) |->
                       (HexVal(data[2*k - 1]) * 16 + HexVal(data[2*k])) % 256])

\* hex crate: lowercase digit table "0123456789abcdef"
HexCharsLower == <<48, 49, 50, 51, 52, 53, 54, 55, 56, 57, 97, 98, 99, 100, 101, 102>>

RECURSIVE HexEncode_LowFirst(_)
\* variant: the low nibble is written before the high one
HexEncode_LowFirst(data) ==
    IF data = <<>> THEN <<>>
    ELSE <<HexCharsLower[(data[1] % 16) + 1], HexCharsLower[(data[1] \div 16) + 1]>>
         \o HexEncode_LowFirst(Tail(data))

RECURSIVE HexEncode(_)
HexEncode(data) ==
    IF data = <<>> THEN <<>>
    ELSE <<HexCharsLower[(data[1] \div 16) + 1], HexCharsLower[(data[1] % 16) + 1]>>
         \o HexEncode(Tail(data))

\* crate::applet::SliceExt::trim: strips leading and trailing whitespace
IsWhitespace(c) == c \in {9, 10, 13, 32}

Trim(s) ==
    LET keep == {i \in 1..Len(s) : ~IsWhitespace(s[i])}
    IN IF keep = {} THEN <<>> ELSE SubSeq(s, Min(keep), Max(keep))

\* trimmed.retain(|&x| x != 0x20)
IsKept(x) == x # 32
\* variant: the retain call is missing
RetainNonSpace_Kept(s) == s

RetainNonSpace(s) == SelectSeq(s, IsKept)

CountSpaces(s) == Cardinality({i \in 1..Len(s) : s[i] = 32})

\* slice.windows(2): the window starting at 1-based position p exists
HasWindow(s, p) == p + 1 <= Len(s)

-----------------------------------------------------------------------------
Flags == [hex_only : BOOLEAN, strict : BOOLEAN, rfc3986 : BOOLEAN,
          has_custom : BOOLEAN, custom : SUBSET CustomChars,
          exclude : SUBSET ExcludeChars]

NoFlags == [hex_only |-> FALSE, strict |-> FALSE, rfc3986 |-> FALSE,
            has_custom |-> FALSE, custom |-> {}, exclude |-> {}]

UnHexFlags == {[NoFlags EXCEPT !.hex_only = o, !.strict = s] : o \in BOOLEAN, s \in BOOLEAN}

\* clap: --custom conflicts with --rfc3986
UrlEncFlags ==
    {[NoFlags EXCEPT !.rfc3986 = u, !.exclude = e] : u \in BOOLEAN, e \in SUBSET ExcludeChars}
    \cup {[NoFlags EXCEPT !.has_custom = TRUE, !.custom = c, !.exclude = e] :
             c \in SUBSET CustomChars, e \in SUBSET ExcludeChars}

Fresh ==
    /\ hexonly = FALSE /\ strict = FALSE /\ table = {}
    /\ val = <<>> /\ stack = <<>> /\ decoded = <<>>
    /\ win = 1 /\ last = <<>> /\ res = <<>>
    /\ npairs = 0 /\ nstripped = 0
    /\ result = NoResult

Init ==
    /\ pc = "parse_args"
    /\ piped = FALSE
    /\ orig = <<>>
    /\ Fresh
    /\ \/ applet = "hex" /\ args = NoFlags /\ input \in SeqsUpTo(RawBytes, MaxRaw)
       \/ applet = "unhex" /\ args \in UnHexFlags /\ input \in SeqsUpTo(TextBytes, MaxLen)
       \/ applet = "urlenc" /\ args \in UrlEncFlags /\ input \in SeqsUpTo(UrlBytes, MaxUrlLen)

-----------------------------------------------------------------------------
(* hex                                                                         *)

HexParseArgs ==
    /\ pc = "parse_args" /\ applet = "hex"
    /\ pc' = "process"
    /\ UNCHANGED <<applet, args, input, piped, orig, hexonly, strict, table,
                   val, stack, decoded, win, last, res, npairs, nstripped, result>>

HexProcess ==
    /\ pc = "process" /\ applet = "hex"
    /\ result' = Ok(HexEncode(input))
    /\ pc' = "done"
    /\ UNCHANGED <<applet, args, input, piped, orig, hexonly, strict, table,
                   val, stack, decoded, win, last, res, npairs, nstripped>>

\* the encoder's output handed to a fresh unhex run
Pipe ==
    /\ pc = "done" /\ applet = "hex" /\ result.kind = "Ok"
    /\ applet' = "unhex"
    /\ args' \in UnHexFlags
    /\ input' = result.bytes
    /\ orig' = input
    /\ piped' = TRUE
    /\ pc' = "parse_args"
    /\ result' = NoResult
    /\ UNCHANGED <<hexonly, strict, table, val, stack, decoded, win, last, res,
                   npairs, nstripped>>

-----------------------------------------------------------------------------
(* unhex                                                                       *)

UnHexParseArgs ==
    /\ pc = "parse_args" /\ applet = "unhex"
    /\ hexonly' = (args.hex_only \/ args.strict)
    /\ strict' = args.strict
    /\ pc' = "process"
    /\ UNCHANGED <<applet, args, input, piped, orig, table,
                   val, stack, decoded, win, last, res, npairs, nstripped, result>>

UnHexProcess ==
    /\ pc = "process" /\ applet = "unhex"
    /\ IF hexonly
       THEN /\ pc' = "hexonly"
            /\ val' = input
            /\ UNCHANGED <<win, last, res>>
       ELSE /\ pc' = "all"
            /\ win' = 1
            /\ last' = <<>>
            /\ res' = <<>>
            /\ UNCHANGED val
    /\ UNCHANGED <<applet, args, input, piped, orig, hexonly, strict, table,
                   stack, decoded, npairs, nstripped, result>>

\* hex_decode_hexonly, strict: the first decode's result is returned as is
HexonlyStrict ==
    /\ pc = "hexonly" /\ strict
    /\ result' = HexDecode(Trim(val))
    /\ pc' = "done"
    /\ UNCHANGED <<applet, args, input, piped, orig, hexonly, strict, table,
                   val, stack, decoded, win, last, res, npairs, nstripped>>

\* the buffer the second decode sees: trimmed, then every 0x20 removed
Stripped(v) == RetainNonSpace(Trim(v))

\* trimmed.split_off(index): (what stays in trimmed, what is returned)
SplitOff(s, index) == <<SubSeq(s, 1, index), SubSeq(s, index + 1, Len(s))>>

\* match arm Ok(decoded); any error kind but the two handled ones panics
HexonlyOk ==
    /\ pc = "hexonly" /\ ~strict
    /\ LET r == HexDecode(Stripped(val))
       IN /\ r.kind \notin {"InvalidHexCharacter", "OddLength"}
          /\ IF r.kind = "Ok"
             THEN /\ decoded' = r.bytes
                  /\ npairs' = npairs + Len(r.bytes)
                  /\ pc' = "hexonly_ret"
                  /\ UNCHANGED result
             ELSE /\ result' = Res("Panic", <<>>, 0)
                  /\ pc' = "done"
                  /\ UNCHANGED <<decoded, npairs>>
    /\ nstripped' = nstripped + CountSpaces(val)
    /\ UNCHANGED <<applet, args, input, piped, orig, hexonly, strict, table,
                   val, stack, win, last, res>>

InvalidSplit(v) == SplitOff(Stripped(v), HexDecode(Stripped(v)).index)

\* match arm InvalidHexCharacter { index }: recurse on the head, keep the tail
HexonlyInvalidChar ==
    /\ pc = "hexonly" /\ ~strict
    /\ HexDecode(Stripped(val)).kind = "InvalidHexCharacter"
    /\ stack' = Append(stack, InvalidSplit(val)[2])
    /\ val' = InvalidSplit(val)[1]
    /\ nstripped' = nstripped + CountSpaces(val)
    /\ UNCHANGED <<applet, args, input, piped, orig, pc, hexonly, strict, table,
                   decoded, win, last, res, npairs, result>>

\* variant: split_off(len) peels nothing
OddSplit_Whole(v) == SplitOff(Stripped(v), Len(Stripped(v)))

OddSplit(v) == SplitOff(Stripped(v), Len(Stripped(v)) - 1)

\* match arm OddLength: recurse on all but the last byte, keep the last byte
HexonlyOddLength ==
    /\ pc = "hexonly" /\ ~strict
    /\ HexDecode(Stripped(val)).kind = "OddLength"
    /\ stack' = Append(stack, OddSplit(val)[2])
    /\ val' = OddSplit(val)[1]
    /\ nstripped' = nstripped + CountSpaces(val)
    /\ UNCHANGED <<applet, args, input, piped, orig, pc, hexonly, strict, table,
                   decoded, win, last, res, npairs, result>>

\* back in a caller's frame: decoded.append(&mut end); Ok(decoded)
HexonlyAppend ==
    /\ pc = "hexonly_ret" /\ stack # <<>>
    /\ decoded' = decoded \o stack[Len(stack)]
    /\ stack' = SubSeq(stack, 1, Len(stack) - 1)
    /\ UNCHANGED <<applet, args, input, piped, orig, pc, hexonly, strict, table,
                   val, win, last, res, npairs, nstripped, result>>

\* the outermost call returns
HexonlyReturn ==
    /\ pc = "hexonly_ret" /\ stack = <<>>
    /\ result' = Ok(decoded)
    /\ pc' = "done"
    /\ UNCHANGED <<applet, args, input, piped, orig, hexonly, strict, table,
                   val, stack, decoded, win, last, res, npairs, nstripped>>

\* hex_decode_all: iter.next() is None
AllExhausted ==
    /\ pc = "all" /\ ~HasWindow(input, win)
    /\ res' = res \o last
    /\ result' = Ok(res \o last)
    /\ pc' = "done"
    /\ UNCHANGED <<applet, args, input, piped, orig, hexonly, strict, table,
                   val, stack, decoded, win, last, npairs, nstripped>>

IsHexPair(a, b) == IsAsciiHexdigit(a) /\ IsAsciiHexdigit(b)

\* variant: the skipped window's first byte is carried (next_win[0..1])
Carry_First(s, p) == IF HasWindow(s, p + 1) THEN <<s[p + 1]>> ELSE <<>>

\* next_win = iter.next().unwrap_or(&[]); last = next_win[1..2] or empty
Carry(s, p) == IF HasWindow(s, p + 1) THEN <<s[p + 2]>> ELSE <<>>

\* both bytes of the window are hex digits
AllPair ==
    /\ pc = "all" /\ HasWindow(input, win)
    /\ IsHexPair(input[win], input[win + 1])
    /\ LET r == HexDecode(<<input[win], input[win + 1]>>)
       IN IF r.kind = "Ok"
          THEN /\ res' = res \o r.bytes
               /\ npairs' = npairs + 1
               /\ last' = Carry(input, win)
               /\ win' = win + 2
               /\ UNCHANGED <<pc, result>>
          ELSE /\ result' = r
               /\ pc' = "done"
               /\ UNCHANGED <<res, npairs, last, win>>
    /\ UNCHANGED <<applet, args, input, piped, orig, hexonly, strict, table,
                   val, stack, decoded, nstripped>>

\* otherwise: the first byte is copied, the second is carried
AllPass ==
    /\ pc = "all" /\ HasWindow(input, win)
    /\ ~IsHexPair(input[win], input[win + 1])
    /\ res' = res \o <<input[win]>>
    /\ last' = <<input[win + 1]>>
    /\ win' = win + 1
    /\ UNCHANGED <<applet, args, input, piped, orig, pc, hexonly, strict, table,
                   val, stack, decoded, npairs, nstripped, result>>

-----------------------------------------------------------------------------
(* urlenc                                                                      *)

IsAsciiGraphic(c) == c \in 33..126
IsAsciiAlphanumeric(c) == (c \in 48..57) \/ (c \in 65..90) \/ (c \in 97..122)

\* ! # $ % & ' ( ) * + , / : ; = ? @ [ ]
Rfc3986Chars == {33, 35, 36, 37, 38, 39, 40, 41, 42, 43, 44, 47, 58, 59, 61, 63, 64, 91, 93}

\* a table is the set of byte values whose entry is true; build_url_table
\* only ever sets entries, on top of the table it is given
build_url_table(excluded, tbl) ==
    tbl \cup {i \in 0..255 :
                 ~IsAsciiGraphic(i) \/ (i \notin excluded /\ i \in Rfc3986Chars)}

build_custom_table(excluded, custom, tbl) ==
    {i \in 0..255 : IF i \in custom THEN i \notin excluded ELSE FALSE}

build_default_table(excluded, tbl) ==
    {i \in 0..255 : IF IsAsciiAlphanumeric(i) THEN FALSE ELSE i \notin excluded}

UrlEncParseArgs ==
    /\ pc = "parse_args" /\ applet = "urlenc"
    /\ table' = IF args.rfc3986 THEN build_url_table(args.exclude, {})
                ELSE IF args.has_custom
                     THEN build_custom_table(args.exclude, args.custom, {})
                     ELSE build_default_table(args.exclude, {})
    /\ pc' = "process"
    /\ UNCHANGED <<applet, args, input, piped, orig, hexonly, strict,
                   val, stack, decoded, win, last, res, npairs, nstripped, result>>

\* format!("%{:02x}", b)
PercentByte(b) == <<37>> \o HexEncode(<<b>>)

RECURSIVE UrlEncode(_, _)
UrlEncode(tbl, v) ==
    IF v = <<>> THEN <<>>
    ELSE (IF v[1] \in tbl THEN PercentByte(v[1]) ELSE <<v[1]>>) \o UrlEncode(tbl, Tail(v))

UrlEncProcess ==
    /\ pc = "process" /\ applet = "urlenc"
    /\ result' = Ok(UrlEncode(table, input))
    /\ pc' = "done"
    /\ UNCHANGED <<applet, args, input, piped, orig, hexonly, strict, table,
                   val, stack, decoded, win, last, res, npairs, nstripped>>

-----------------------------------------------------------------------------
Next ==
    \/ HexParseArgs
    \/ HexProcess
    \/ Pipe
    \/ UnHexParseArgs
    \/ UnHexProcess
    \/ HexonlyStrict
    \/ HexonlyOk
    \/ HexonlyInvalidChar
    \/ HexonlyOddLength
    \/ HexonlyAppend
    \/ HexonlyReturn
    \/ AllExhausted
    \/ AllPair
    \/ AllPass
    \/ UrlEncParseArgs
    \/ UrlEncProcess

Spec == Init /\ [][Next]_vars

\* the program runs to completion once started
FairSpec == Spec /\ WF_vars(Next)

-----------------------------------------------------------------------------
(* Vocabulary of the properties, stated without the decoders' helpers          *)

HexDigits == {48, 49, 50, 51, 52, 53, 54, 55, 56, 57,
              65, 66, 67, 68, 69, 70, 97, 98, 99, 100, 101, 102}

UpperDigits == <<48, 49, 50, 51, 52, 53, 54, 55, 56, 57, 65, 66, 67, 68, 69, 70>>
LowerDigits == <<48, 49, 50, 51, 52, 53, 54, 55, 56, 57, 97, 98, 99, 100, 101, 102>>

Nibble(c) == CHOOSE n \in 0..15 : UpperDigits[n + 1] = c \/ LowerDigits[n + 1] = c

AllHex(s) == \A i \in 1..Len(s) : s[i] \in HexDigits
NonHexAt(s) == {i \in 1..Len(s) : s[i] \notin HexDigits}
\* 0-based index of the first byte that is not a hex digit
FirstNonHex(s) == Min(NonHexAt(s)) - 1

\* value of an even-length string of hex digits, high nibble first
PairsValue(h) == [k \in 1..(Len(h) \div 2) |-> 16 * Nibble(h[2*k - 1]) + Nibble(h[2*k])]

NoSpaces(s) == SelectSeq(s, LAMBDA x : x # 32)

Finished == pc = "done" /\ applet = "unhex"
FindAnywhere == applet = "unhex" /\ ~args.hex_only /\ ~args.strict
LenientHexOnly == applet = "unhex" /\ args.hex_only /\ ~args.strict
StrictMode == applet = "unhex" /\ args.strict

-----------------------------------------------------------------------------
\* C1: decoding the hex encoding of a buffer gives the buffer back, under the
\* find-anywhere decoder, the non-strict hex-only decoder and the strict one.
C1_RoundTrip ==
    (Finished /\ piped) => result = Ok(orig)

C1_Witness ==
    /\ Finished /\ piped /\ FindAnywhere
    /\ Len(orig) >= 2 /\ orig[1] # orig[2]
    /\ result.kind = "Ok"

\* C2: in the lenient modes, pass-through bytes + 2 * decoded pairs (+ the
\* stripped 0x20 bytes in hex-only mode) account for every input byte.
C2_NoByteLoss ==
    (Finished /\ ~args.strict /\ result.kind = "Ok") =>
        (Len(result.bytes) - npairs) + 2 * npairs
            + (IF args.hex_only THEN nstripped ELSE 0) = Len(input)

\* C3: the find-anywhere decoder returns a buffer of length 0 or 1 unchanged.
C3_ShortInputUnchanged ==
    (Finished /\ FindAnywhere /\ Len(input) <= 1) => result = Ok(input)

\* the lenient decoding of a run of hex digits: its pairs, then a digit left over
HexRunValue(h) ==
    PairsValue(SubSeq(h, 1, 2 * (Len(h) \div 2)))
        \o SubSeq(h, 2 * (Len(h) \div 2) + 1, Len(h))

\* C4: in non-strict hex-only mode, with s the trimmed input without its 0x20
\* bytes and i its first non-hex index, the output is the decoding of s[0..i)
\* followed by s[i..] byte for byte.
C4_TailVerbatim ==
    (Finished /\ LenientHexOnly /\ NonHexAt(NoSpaces(Trim(input))) # {}) =>
        LET s == NoSpaces(Trim(input))
            i == FirstNonHex(s)
        IN result = Ok(HexRunValue(SubSeq(s, 1, i)) \o SubSeq(s, i + 1, Len(s)))

\* C5: strict mode on the trimmed input t: odd length fails with OddLength
\* (whatever t holds); even length with a non-hex byte fails with
\* InvalidCharacter at the first such index; otherwise |t|/2 bytes, byte k being
\* 16*value(t[2k]) + value(t[2k+1]).  A failure carries no output bytes.
C5_StrictOutcome ==
    (Finished /\ StrictMode) =>
        LET t == Trim(input)
        IN /\ (Len(t) % 2 = 1) => result = Res("OddLength", <<>>, 0)
           /\ (Len(t) % 2 = 0 /\ ~AllHex(t)) =>
                  result = Res("InvalidHexCharacter", <<>>, FirstNonHex(t))
           /\ (Len(t) % 2 = 0 /\ AllHex(t)) =>
                  /\ result = Ok(PairsValue(t))
                  /\ Len(result.bytes) * 2 = Len(t)

C5_Witness ==
    /\ Finished /\ StrictMode
    /\ Len(Trim(input)) = 3 /\ ~AllHex(Trim(input))
    /\ Len(input) > 3
    /\ result.kind = "OddLength"

\* C6: the find-anywhere and the non-strict hex-only decoders never fail: no
\* error is returned and the panic branch is not taken, whatever the input.
C6_LenientNeverFails ==
    (applet = "unhex" /\ ~args.strict) =>
        /\ result.kind \in {"None", "Ok"}
        /\ (pc = "done") => result.kind = "Ok"

C6_Witness ==
    /\ Finished /\ FindAnywhere
    /\ npairs > 0 /\ ~AllHex(input)
    /\ result.kind = "Ok"

\* C7: when the trimmed input without its 0x20 bytes is an even-length string h
\* of hex digits, the non-strict hex-only decoder returns the strict decoding of
\* h, wherever the spaces were.
C7_SpaceStripping ==
    (Finished /\ LenientHexOnly) =>
        LET h == NoSpaces(Trim(input))
        IN (Len(h) % 2 = 0 /\ AllHex(h)) => result = Ok(PairsValue(h))

C7_Witness ==
    /\ Finished /\ LenientHexOnly
    /\ Len(input) = 3 /\ input[2] = 32
    /\ input[1] \in HexDigits /\ input[3] \in HexDigits
    /\ result.kind = "Ok" /\ Len(result.bytes) = 1

RECURSIVE PercentEncoded(_, _, _)
PercentEncoded(excl, tbl, v) ==
    IF v = <<>> THEN <<>>
    ELSE (IF v[1] \in excl \/ v[1] \notin tbl
          THEN <<v[1]>>
          ELSE <<37, LowerDigits[(v[1] \div 16) + 1], LowerDigits[(v[1] % 16) + 1]>>)
         \o PercentEncoded(excl, tbl, Tail(v))

\* C8: under each table policy every single-byte character of the exclude set
\* has table entry false and passes through unchanged; a byte whose entry is
\* true is emitted as '%' and two lowercase hex digits.
C8_ExcludedPassThrough ==
    (applet = "urlenc" /\ pc \in {"process", "done"}) =>
        /\ \A c \in args.exclude : c < 128 => c \notin table
        /\ (pc = "done") =>
               result = Ok(PercentEncoded({c \in args.exclude : c < 128}, table, input))

RECURSIVE GreedyScan(_)
\* left-to-right tokens of a buffer: a hex pair gives one byte and is skipped
\* whole, any other byte stands for itself
GreedyScan(s) ==
    IF Len(s) < 2 THEN s
    ELSE IF s[1] \in HexDigits /\ s[2] \in HexDigits
         THEN <<16 * Nibble(s[1]) + Nibble(s[2])>> \o GreedyScan(SubSeq(s, 3, Len(s)))
         ELSE <<s[1]>> \o GreedyScan(Tail(s))

C9_WindowStep ==
    (applet = "unhex" /\ pc = "all" /\ win + 1 <= Len(input)) =>
        IF input[win] \in HexDigits /\ input[win + 1] \in HexDigits
        THEN /\ win' = win + 2
             /\ res' = res \o <<16 * Nibble(input[win]) + Nibble(input[win + 1])>>
             /\ last' = IF win + 2 <= Len(input) THEN <<input[win + 2]>> ELSE <<>>
        ELSE /\ win' = win + 1
             /\ res' = res \o <<input[win]>>
             /\ last' = <<input[win + 1]>>

C9_NoOverlap ==
    /\ (applet = "unhex" /\ pc = "all") =>
           /\ win <= Len(input) + 1
           /\ res = GreedyScan(SubSeq(input, 1, win - 1))
    /\ (Finished /\ FindAnywhere /\ AllHex(input) /\ Len(input) % 2 = 0) =>
           Len(result.bytes) * 2 = Len(input)

\* C9: in hex_decode_all a decoded pair at (p, p+1) moves the scan to p+2 and
\* carries input[p+2] if there is one; a non-pair emits input[p] and moves to
\* p+1.  So the output is the greedy non-overlapping scan of the bytes consumed
\* so far, and 2n hex digits give n bytes.
C9_GreedyScan == [][C9_WindowStep]_vars /\ []C9_NoOverlap

C9_Witness ==
    /\ applet = "unhex" /\ pc = "all"
    /\ npairs = 1 /\ win = 3 /\ Len(input) = 4
    /\ last = <<input[3]>>
    /\ input[2] \in HexDigits /\ input[3] \in HexDigits

C10_Shrinks ==
    (applet = "unhex" /\ pc = "hexonly" /\ pc' = "hexonly") =>
        /\ Len(val') < Len(val)
        /\ Len(stack') = Len(stack) + 1

\* C10: every recursive call of the non-strict hex_decode_hexonly receives a
\* strictly shorter buffer, the recursion depth never exceeds the input length,
\* and the decoder finishes on every input.
C10_Terminates ==
    /\ [][C10_Shrinks]_vars
    /\ [](Len(stack) + Len(val) <= Len(input))
    /\ (pc = "hexonly") ~> (pc = "done")

C10_Witness ==
    /\ Finished /\ LenientHexOnly
    /\ Len(input) = 3 /\ AllHex(input)
    /\ Len(result.bytes) = 2 /\ npairs = 1

====
